---- MODULE Spec2Model ----
(***************************************************************************)
(* A model of the native Solana todo program of src/lib.rs: the Task       *)
(* record and its borsh layout, the program derived address of a Task, and *)
(* the three instructions CreateTask, UpdateTask and DeleteTask of         *)
(* process_instruction, run against the accounts the runtime holds.        *)
(***************************************************************************)
EXTENDS Integers, Sequences, FiniteSets, TLC

(***************************************************************************)
(* Bounds of the model.                                                    *)
(***************************************************************************)
\* u8::MAX, the first bump seed find_program_address tries (255, scaled).
MaxBump == 2
\* u64::MAX, the largest lamport balance (2^64 - 1, scaled).
U64Max == 7
\* Rent::minimum_balance(Task::LEN), the runtime's answer (scaled).
RentExempt == 2
\* How many of the account flags of an instruction differ from those the
\* instruction asks for.
MaxWrongFlags == 1

(***************************************************************************)
(* Constants of the program.                                               *)
(***************************************************************************)
\* [u8; 64], the width of title and of description.
TextLen == 64
\* Pubkey, 32 bytes.
PubkeyLen == 32
\* u64, 8 bytes.
U64Len == 8
\* Task::LEN.
LEN == 169
\* Task::TAG, "task" as bytes.
TAG == <<116, 97, 115, 107>>

Bytes(n, b) == [i \in 1..n |-> b]

\* Pubkey::default(), which is also the id of the System Program: 32 zero bytes.
SYSTEM_PROGRAM_ID == Bytes(PubkeyLen, 0)
\* The identities that can sign a transaction.
KeyA == Bytes(PubkeyLen, 1)
KeyB == Bytes(PubkeyLen, 2)
Signers == {KeyA, KeyB}
\* The ids instructions carry.
Ids == {0, 1}
Bumps == 0..MaxBump
\* The title and description buffers instructions carry: zero padded text.
Text1 == [i \in 1..TextLen |-> IF i <= 2 THEN 77 ELSE 0]
Text2 == [i \in 1..TextLen |-> IF i <= 3 THEN 78 ELSE 0]
Texts == {Text1, Text2}
\* Option<[u8; 64]>.
None == <<>>
OptTexts == Texts \cup {None}
\* The owners of an account.
SystemOwner == "system_program"
ProgramOwner == "todo_program"

(***************************************************************************)
(* borsh of u64 and of Task.                                               *)
(***************************************************************************)
RECURSIVE to_le_bytes_n(_, _)
to_le_bytes_n(n, w) ==
    IF w = 0 THEN <<>> ELSE <<n % 256>> \o to_le_bytes_n(n \div 256, w - 1)

to_le_bytes(id) == to_le_bytes_n(id, U64Len)

RECURSIVE from_le_bytes(_)
from_le_bytes(bs) ==
    IF bs = <<>> THEN 0 ELSE bs[1] + 256 * from_le_bytes(Tail(bs))

\* Task::new
TaskNew(id, title, description, authority, bump) ==
    [title |-> title, description |-> description, authority |-> authority,
     id |-> id, bump |-> bump]

\* BorshSerialize for Task: the fields in declaration order, no prefixes.
serialize(t) ==
    t.title \o t.description \o t.authority \o to_le_bytes(t.id) \o <<t.bump>>

\* BorshDeserialize::try_from_slice succeeds on exactly LEN bytes.
CanDecode(bs) == Len(bs) = LEN

\* try_from_slice reading the description and what follows it from one byte
\* too early.
try_from_slice_one_early(bs) ==
    [title |-> SubSeq(bs, 1, TextLen),
     description |-> SubSeq(bs, TextLen, 2 * TextLen - 1),
     authority |-> SubSeq(bs, 2 * TextLen, 2 * TextLen + PubkeyLen - 1),
     id |-> from_le_bytes(SubSeq(bs, 2 * TextLen + PubkeyLen + 1,
                                     2 * TextLen + PubkeyLen + U64Len)),
     bump |-> bs[LEN]]

try_from_slice(bs) ==
    [title |-> SubSeq(bs, 1, TextLen),
     description |-> SubSeq(bs, TextLen + 1, 2 * TextLen),
     authority |-> SubSeq(bs, 2 * TextLen + 1, 2 * TextLen + PubkeyLen),
     id |-> from_le_bytes(SubSeq(bs, 2 * TextLen + PubkeyLen + 1,
                                     2 * TextLen + PubkeyLen + U64Len)),
     bump |-> bs[LEN]]

(***************************************************************************)
(* Program derived addresses.  The hash of the seeds is taken to be free   *)
(* of collisions: an address is named by the seeds it is the hash of.      *)
(***************************************************************************)
Seeds(id, authority, bump) == <<TAG, to_le_bytes(id), authority, <<bump>>>>

\* Whether the hash of the seeds is a point of the curve: a fixed function of
\* the seeds, true of some bumps and false of others.
OnCurve(seeds) == (seeds[2][1] + seeds[3][1] + seeds[4][1]) % 3 = 0

InvalidSeeds == <<"Invalid Seeds">>

\* Pubkey::create_program_address
create_program_address(seeds) ==
    IF OnCurve(seeds) THEN InvalidSeeds ELSE seeds

\* Task::create_pda; InvalidSeeds stands for the panic of expect().
create_pda(id, authority, bump) ==
    create_program_address(Seeds(id, authority, bump))

\* Pubkey::find_program_address: the highest bump whose address is valid.
RECURSIVE find_bump(_, _, _)
find_bump(id, authority, bump) ==
    IF create_pda(id, authority, bump) # InvalidSeeds \/ bump = 0
    THEN bump
    ELSE find_bump(id, authority, bump - 1)

find_program_address(id, authority) ==
    LET b == find_bump(id, authority, MaxBump)
    IN  <<create_pda(id, authority, b), b>>

\* The addresses a Task handle of an instruction can have: those a client
\* finds for an id and an identity, as the tests do.
TaskKeys == {find_program_address(id, a)[1] : id \in Ids, a \in Signers}

(***************************************************************************)
(* The state: the accounts at the Task addresses, the lamports of the      *)
(* signers' own accounts, and what the last instruction was and how it     *)
(* ended.  creator remembers who signed the CreateTask of each account.    *)
(* updated remembers whether an UpdateTask has succeeded on it since, in   *)
(* the behaviours that keep track of it (tracking).                        *)
(***************************************************************************)
VARIABLES accounts, wallets, creator, updated, tracking, last

vars == <<accounts, wallets, creator, updated, tracking, last>>

\* An address no account was created at: no lamports, no data.
NoAccount == [lamports |-> 0, data |-> <<>>, owner |-> SystemOwner]
NoKey == <<>>
Ok == "ok"

\* What a handler hands back: how it ended and the accounts as it left them.
Result(err, accts, wals) == [err |-> err, accounts |-> accts, wallets |-> wals]

\* AccountInfo, as far as the program reads it.
AccountInfo(key, is_signer, is_writable) ==
    [key |-> key, is_signer |-> is_signer, is_writable |-> is_writable]

\* Rent::minimum_balance: proportional to the account's size and the 128 bytes
\* of overhead the runtime adds, RentExempt for an account of Task::LEN bytes.
ACCOUNT_STORAGE_OVERHEAD == 128

minimum_balance(data_len) ==
    (RentExempt * (ACCOUNT_STORAGE_OVERHEAD + data_len))
        \div (ACCOUNT_STORAGE_OVERHEAD + LEN)

(***************************************************************************)
(* The System Program's create_account under invoke_signed: the account    *)
(* to create must be among the account infos passed, must hold no lamports *)
(* and no data, and the payer must hold the lamports asked for.            *)
(***************************************************************************)
\* create_account not refusing an account that is in use.
invoke_signed_create_account_in_use(st, from, to, lamports, space, infos) ==
    IF to \notin {i.key : i \in infos}
    THEN Result("MissingAccount", st.accounts, st.wallets)
    ELSE IF st.wallets[from] < lamports
    THEN Result("InsufficientFunds", st.accounts, st.wallets)
    ELSE Result(Ok,
                [st.accounts EXCEPT ![to] =
                    [lamports |-> lamports, data |-> Bytes(space, 0),
                     owner |-> ProgramOwner]],
                [st.wallets EXCEPT ![from] = @ - lamports])

invoke_signed_create_account(st, from, to, lamports, space, infos) ==
    IF to \notin {i.key : i \in infos}
    THEN Result("MissingAccount", st.accounts, st.wallets)
    ELSE IF st.accounts[to].lamports > 0
    THEN Result("AccountAlreadyInUse", st.accounts, st.wallets)
    ELSE IF st.accounts[to].data # <<>> \/ st.accounts[to].owner # SystemOwner
    THEN Result("AccountAlreadyInUse", st.accounts, st.wallets)
    ELSE IF st.wallets[from] < lamports
    THEN Result("InsufficientFunds", st.accounts, st.wallets)
    ELSE Result(Ok,
                [st.accounts EXCEPT ![to] =
                    [lamports |-> lamports, data |-> Bytes(space, 0),
                     owner |-> ProgramOwner]],
                [st.wallets EXCEPT ![from] = @ - lamports])

(***************************************************************************)
(* The asserts the three instructions share.                               *)
(***************************************************************************)
\* The asserts on the flags without the one on authority.is_writable.
asserted_flags_but_writable(authority, task) ==
    IF ~authority.is_signer THEN "assert authority.is_signer"
    ELSE IF task.is_signer THEN "assert !task.is_signer"
    ELSE IF ~task.is_writable THEN "assert task.is_writable"
    ELSE Ok

\* assert!(authority.is_signer); assert!(authority.is_writable);
\* assert!(!task.is_signer); assert!(task.is_writable);
\* the first of them that fails, or Ok.
asserted_flags(authority, task) ==
    IF ~authority.is_signer THEN "assert authority.is_signer"
    ELSE IF ~authority.is_writable THEN "assert authority.is_writable"
    ELSE IF task.is_signer THEN "assert !task.is_signer"
    ELSE IF ~task.is_writable THEN "assert task.is_writable"
    ELSE Ok

\* The handlers without their assert on the key of the Task handle.
is_task_key_unchecked(task, task_pda) == TRUE

\* assert!(*task.key == task_pda)
is_task_key(task, task_pda) == task.key = task_pda

(***************************************************************************)
(* TodoInstruction::CreateTask                                             *)
(***************************************************************************)
\* create_account asking for the rent of an account with no data.
create_account_rent_of_empty(from, to) ==
    [from |-> from, to |-> to, lamports |-> minimum_balance(0), space |-> LEN]

\* The create_account instruction CreateTask hands to invoke_signed.
create_account(from, to) ==
    [from |-> from, to |-> to, lamports |-> minimum_balance(LEN), space |-> LEN]

\* CreateTask writing the title where the description goes and the other way.
created_task_swapped(ix, authority, task_data) ==
    [task_data EXCEPT !.title = ix.description,
                      !.description = ix.title,
                      !.authority = authority.key,
                      !.id = ix.id,
                      !.bump = ix.bump]

\* The fields CreateTask writes into the record it decoded from the new account.
created_task(ix, authority, task_data) ==
    [task_data EXCEPT !.title = ix.title,
                      !.description = ix.description,
                      !.authority = authority.key,
                      !.id = ix.id,
                      !.bump = ix.bump]

CreateTask(st, ix, authority, task, system_program) ==
    IF asserted_flags(authority, task) # Ok
    THEN Result(asserted_flags(authority, task), st.accounts, st.wallets)
    ELSE IF system_program.key # SYSTEM_PROGRAM_ID
    THEN Result("assert system_program.key", st.accounts, st.wallets)
    ELSE
    LET pda == find_program_address(ix.id, authority.key)
        task_pda == pda[1]
        create == create_account(authority.key, task_pda)
        cpi == invoke_signed_create_account(st, create.from, create.to, create.lamports,
                                            create.space, {authority, task})
    IN  IF cpi.err # Ok THEN cpi
        ELSE IF ~CanDecode(cpi.accounts[task.key].data)
        THEN Result("try_from_slice", cpi.accounts, cpi.wallets)
        ELSE
        LET task_data == created_task(ix, authority,
                                      try_from_slice(cpi.accounts[task.key].data))
        IN  Result(Ok,
                   [cpi.accounts EXCEPT ![task.key].data = serialize(task_data)],
                   cpi.wallets)

(***************************************************************************)
(* TodoInstruction::UpdateTask                                             *)
(***************************************************************************)
\* UpdateTask without its assert on the two options.
has_field_unchecked(ix) == TRUE

\* assert!(title.is_some() || description.is_some())
has_field(ix) == ix.title # None \/ ix.description # None

\* The handlers without their assert on the authority.
is_authority_unchecked(authority, task_data) == TRUE

\* assert!(*authority.key == task_data.authority)
is_authority(authority, task_data) == authority.key = task_data.authority

\* The handlers without their assert on the id.
is_id_unchecked(ix, task_data) == TRUE

\* assert!(id == task_data.id)
is_id(ix, task_data) == ix.id = task_data.id

\* UpdateTask writing a title that is Some over the description as well.
updated_task_title_over_both(ix, task_data) ==
    LET with_title == IF ix.title # None
                      THEN [task_data EXCEPT !.title = ix.title,
                                             !.description = ix.title]
                      ELSE task_data
    IN  IF ix.description # None
        THEN [with_title EXCEPT !.description = ix.description]
        ELSE with_title

\* UpdateTask building the record anew with Task::new and a bump of 0.
updated_task_rebuilt(ix, task_data) ==
    TaskNew(task_data.id,
            IF ix.title # None THEN ix.title ELSE task_data.title,
            IF ix.description # None THEN ix.description ELSE task_data.description,
            task_data.authority,
            0)

\* The fields UpdateTask overwrites: each one that is Some.
updated_task(ix, task_data) ==
    LET with_title == IF ix.title # None
                      THEN [task_data EXCEPT !.title = ix.title]
                      ELSE task_data
    IN  IF ix.description # None
        THEN [with_title EXCEPT !.description = ix.description]
        ELSE with_title

UpdateTask(st, ix, authority, task) ==
    IF asserted_flags(authority, task) # Ok
    THEN Result(asserted_flags(authority, task), st.accounts, st.wallets)
    ELSE IF ~has_field(ix)
    THEN Result("assert title or description", st.accounts, st.wallets)
    ELSE IF ~CanDecode(st.accounts[task.key].data)
    THEN Result("try_from_slice", st.accounts, st.wallets)
    ELSE
    LET task_data == try_from_slice(st.accounts[task.key].data)
    IN  IF ~is_authority(authority, task_data)
        THEN Result("assert authority", st.accounts, st.wallets)
        ELSE IF ~is_id(ix, task_data)
        THEN Result("assert id", st.accounts, st.wallets)
        ELSE
        LET task_pda == create_pda(task_data.id, task_data.authority, task_data.bump)
        IN  IF task_pda = InvalidSeeds
            THEN Result("Invalid Seeds", st.accounts, st.wallets)
            ELSE IF ~is_task_key(task, task_pda)
            THEN Result("assert task.key", st.accounts, st.wallets)
            ELSE Result(Ok,
                        [st.accounts EXCEPT ![task.key].data =
                            serialize(updated_task(ix, task_data))],
                        st.wallets)

(***************************************************************************)
(* TodoInstruction::DeleteTask                                             *)
(***************************************************************************)
\* DeleteTask leaving the bytes of the account as they are.
fill_nothing(data, b) == data

\* DeleteTask zeroing the title and the description only.
fill_texts(data, b) ==
    [i \in 1..Len(data) |-> IF i <= 2 * TextLen THEN b ELSE data[i]]

\* task_raw_bytes.fill(0)
fill(data, b) == Bytes(Len(data), b)

\* u64::checked_add: the sum, or Option::None when it does not fit.  No u64 is
\* negative, so -1 stands for None.
NoneU64 == -1

\* u64::wrapping_add in the place of checked_add.
wrapping_add(x, y) == (x + y) % (U64Max + 1)

checked_add(x, y) == IF x + y > U64Max THEN NoneU64 ELSE x + y

\* DeleteTask leaving the account its lamports.
closed_lamports_kept(task_lamports) == task_lamports

\* The lamports DeleteTask leaves in the Task account.
closed_lamports(task_lamports) == 0

DeleteTask(st, ix, authority, task) ==
    IF asserted_flags(authority, task) # Ok
    THEN Result(asserted_flags(authority, task), st.accounts, st.wallets)
    ELSE IF ~CanDecode(st.accounts[task.key].data)
    THEN Result("try_from_slice", st.accounts, st.wallets)
    ELSE
    LET task_data == try_from_slice(st.accounts[task.key].data)
    IN  IF ~is_authority(authority, task_data)
        THEN Result("assert authority", st.accounts, st.wallets)
        ELSE IF ~is_id(ix, task_data)
        THEN Result("assert id", st.accounts, st.wallets)
        ELSE
        LET task_pda == create_pda(task_data.id, task_data.authority, task_data.bump)
        IN  IF task_pda = InvalidSeeds
            THEN Result("Invalid Seeds", st.accounts, st.wallets)
            ELSE IF ~is_task_key(task, task_pda)
            THEN Result("assert task.key", st.accounts, st.wallets)
            ELSE
            LET zeroed == [st.accounts EXCEPT ![task.key].data = fill(@, 0)]
                task_lamports == zeroed[task.key].lamports
                authority_lamports == st.wallets[authority.key]
                sum == checked_add(authority_lamports, task_lamports)
            IN  IF sum = NoneU64
                THEN Result("checked_add", zeroed, st.wallets)
                ELSE Result(Ok,
                            [zeroed EXCEPT ![task.key].lamports =
                                closed_lamports(task_lamports)],
                            [st.wallets EXCEPT ![authority.key] = sum])

(***************************************************************************)
(* process_instruction: the dispatch on the instruction's variant.         *)
(***************************************************************************)
process_instruction(st, ix, accs) ==
    CASE ix.tag = "CreateTask" -> CreateTask(st, ix, accs[1], accs[2], accs[3])
      [] ix.tag = "UpdateTask" -> UpdateTask(st, ix, accs[1], accs[2])
      [] ix.tag = "DeleteTask" -> DeleteTask(st, ix, accs[1], accs[2])

(***************************************************************************)
(* The initial states.  No Task account exists.  One of the signers holds  *)
(* the lamports a Task account costs and one lamport more, the other holds *)
(* one lamport.                                                            *)
(***************************************************************************)
Idle == [op |-> "none"]

Funded(a) ==
    /\ wallets = [s \in Signers |-> IF s = a THEN RentExempt + 1 ELSE 1]
    /\ accounts = [k \in TaskKeys |-> NoAccount]
    /\ creator = [k \in TaskKeys |-> NoKey]
    /\ updated = [k \in TaskKeys |-> FALSE]
    /\ last = Idle

Init == tracking = FALSE /\ \E a \in Signers : Funded(a)

\* The scenario of the tests: KeyA creates, updates and deletes, KeyB meddles.
InitScenario == tracking = TRUE /\ Funded(KeyA)

(***************************************************************************)
(* One instruction of a transaction.  The runtime keeps what the program   *)
(* wrote when the instruction succeeds and discards it when it fails.      *)
(* last holds the instruction and its result until the result is returned. *)
(***************************************************************************)
State == [accounts |-> accounts, wallets |-> wallets]

Commit(ix, accs) ==
    LET r == process_instruction(State, ix, accs)
    IN  /\ accounts' = IF r.err = Ok THEN r.accounts ELSE accounts
        /\ wallets' = IF r.err = Ok THEN r.wallets ELSE wallets
        /\ creator' = IF r.err = Ok /\ ix.tag = "CreateTask"
                      THEN [creator EXCEPT ![accs[2].key] = accs[1].key]
                      ELSE creator
        /\ updated' = IF r.err = Ok /\ ix.tag = "CreateTask"
                      THEN [updated EXCEPT ![accs[2].key] = FALSE]
                      ELSE IF r.err = Ok /\ ix.tag = "UpdateTask" /\ tracking
                      THEN [updated EXCEPT ![accs[2].key] = TRUE]
                      ELSE updated
        /\ last' = [op |-> ix.tag, ix |-> ix, authority |-> accs[1],
                    task |-> accs[2], err |-> r.err]
        /\ UNCHANGED tracking

CreateIx(id, title, description, bump) ==
    [tag |-> "CreateTask", id |-> id, title |-> title,
     description |-> description, bump |-> bump]

UpdateIx(id, title, description) ==
    [tag |-> "UpdateTask", id |-> id, title |-> title, description |-> description]

DeleteIx(id) == [tag |-> "DeleteTask", id |-> id]

\* The flags of the authority and of the Task handle of an instruction, and
\* the key of its third account.  The instruction asks for [WRITE, SIGNER],
\* [WRITE] and the System Program; at most MaxWrongFlags of these are not so.
B2N(b) == IF b THEN 1 ELSE 0

WrongFlags(m) == B2N(~m.as) + B2N(~m.aw) + B2N(m.ts) + B2N(~m.tw)

Metas ==
    {m \in [as : BOOLEAN, aw : BOOLEAN, ts : BOOLEAN, tw : BOOLEAN] :
        WrongFlags(m) <= MaxWrongFlags}

Programs == {SYSTEM_PROGRAM_ID, KeyB}

Handles(s, k, m) == <<AccountInfo(s, m.as, m.aw), AccountInfo(k, m.ts, m.tw)>>

Create ==
    /\ last = Idle
    /\ \E s \in Signers, k \in TaskKeys, m \in Metas, p \in Programs,
          id \in Ids, title \in Texts, description \in Texts, bump \in Bumps :
            /\ WrongFlags(m) + B2N(p # SYSTEM_PROGRAM_ID) <= MaxWrongFlags
            /\ Commit(CreateIx(id, title, description, bump),
                      Handles(s, k, m) \o <<AccountInfo(p, FALSE, FALSE)>>)

Update ==
    /\ last = Idle
    /\ \E s \in Signers, k \in TaskKeys, m \in Metas,
          id \in Ids, title \in OptTexts, description \in OptTexts :
            Commit(UpdateIx(id, title, description), Handles(s, k, m))

Delete ==
    /\ last = Idle
    /\ \E s \in Signers, k \in TaskKeys, m \in Metas, id \in Ids :
            Commit(DeleteIx(id), Handles(s, k, m))

\* process_instruction has returned: the next instruction can run.
Return ==
    /\ last # Idle
    /\ last' = Idle
    /\ UNCHANGED <<accounts, wallets, creator, updated, tracking>>

\* The transaction has ended: the runtime drops the accounts that hold no
\* lamports.
Reclaim ==
    /\ last = Idle
    /\ \E k \in TaskKeys : accounts[k] # NoAccount /\ accounts[k].lamports = 0
    /\ accounts' = [k \in TaskKeys |->
                      IF accounts[k].lamports = 0 THEN NoAccount ELSE accounts[k]]
    /\ creator' = [k \in TaskKeys |->
                      IF accounts[k].lamports = 0 THEN NoKey ELSE creator[k]]
    /\ updated' = [k \in TaskKeys |->
                      IF accounts[k].lamports = 0 THEN FALSE ELSE updated[k]]
    /\ UNCHANGED <<wallets, tracking, last>>

Next == Create \/ Update \/ Delete \/ Return \/ Reclaim

Spec == Init /\ [][Next]_vars

SpecScenario == InitScenario /\ [][Next]_vars

(***************************************************************************)
(* The tests that inject an account.  The account at the address of id 1   *)
(* and KeyA holds from the start a Task made with Task::new and the bump   *)
(* of find_program_address, and lamports the test chooses.  KeyA holds one *)
(* lamport less than a u64 can count, KeyB one.  The instructions of these *)
(* tests are UpdateTask and DeleteTask.                                    *)
(***************************************************************************)
InjectedKey == find_program_address(1, KeyA)[1]

old_task ==
    TaskNew(1, Text1, Text2, KeyA, find_program_address(1, KeyA)[2])

injected_task_account(lamports) ==
    [lamports |-> lamports, data |-> serialize(old_task), owner |-> ProgramOwner]

InitInjected ==
    /\ tracking = FALSE
    /\ wallets = [s \in Signers |-> IF s = KeyA THEN U64Max - 1 ELSE 1]
    /\ \E lamports \in {1, RentExempt} :
            accounts = [k \in TaskKeys |->
                          IF k = InjectedKey
                          THEN injected_task_account(lamports)
                          ELSE NoAccount]
    /\ creator = [k \in TaskKeys |-> IF k = InjectedKey THEN KeyA ELSE NoKey]
    /\ updated = [k \in TaskKeys |-> FALSE]
    /\ last = Idle

NextInjected == Update \/ Delete \/ Return \/ Reclaim

SpecInjected == InitInjected /\ [][NextInjected]_vars

(***************************************************************************)
(* The borsh codec on its own: a Task built by Task::new is serialized     *)
(* into the bytes of an account and read back with try_from_slice.  The    *)
(* titles and descriptions are any bytes, text or not.  The ids are u64    *)
(* values up to 2^31 - 1, the largest integer TLC computes with.           *)
(***************************************************************************)
CodecTexts ==
    {Bytes(TextLen, 0), Bytes(TextLen, 255), Text1,
     [i \in 1..TextLen |-> (i * 37) % 256]}

CodecKeys == {SYSTEM_PROGRAM_ID, KeyA, KeyB, Bytes(PubkeyLen, 255)}

CodecIds == {0, 1, 255, 256, 65537, 2147483647}

CodecBumps == {0, 1, 255}

\* The account the bytes are written to: that of id 0 and KeyA.
CodecKey == find_program_address(0, KeyA)[1]

InitCodec ==
    /\ tracking = FALSE
    /\ wallets = [s \in Signers |-> 0]
    /\ accounts = [k \in TaskKeys |->
                     IF k = CodecKey
                     THEN [lamports |-> RentExempt, data |-> Bytes(LEN, 0),
                           owner |-> ProgramOwner]
                     ELSE NoAccount]
    /\ creator = [k \in TaskKeys |-> NoKey]
    /\ updated = [k \in TaskKeys |-> FALSE]
    /\ \E id \in CodecIds, title \in CodecTexts, description \in CodecTexts,
          authority \in CodecKeys, bump \in CodecBumps :
            last = [op |-> "new",
                    task_data |-> TaskNew(id, title, description, authority, bump)]

\* task_data.serialize(&mut &mut task.data.borrow_mut()[..])
Serialize ==
    /\ last.op = "new"
    /\ accounts' = [accounts EXCEPT ![CodecKey].data = serialize(last.task_data)]
    /\ last' = [op |-> "serialize", task_data |-> last.task_data]
    /\ UNCHANGED <<wallets, creator, updated, tracking>>

\* Task::try_from_slice(&task.data.borrow())
TryFromSlice ==
    /\ last.op = "serialize"
    /\ last' = [op |-> "try_from_slice", task_data |-> last.task_data,
                is_ok |-> CanDecode(accounts[CodecKey].data),
                decoded |-> try_from_slice(accounts[CodecKey].data)]
    /\ UNCHANGED <<accounts, wallets, creator, updated, tracking>>

NextCodec == Serialize \/ TryFromSlice

SpecCodec == InitCodec /\ [][NextCodec]_vars

(***************************************************************************)
(* What the claims speak of.                                               *)
(***************************************************************************)
\* The account at k holds a record: created, and not deleted since.
LiveIn(accts, k) == accts[k].owner = ProgramOwner /\ accts[k].lamports > 0

Live(k) == LiveIn(accounts, k)

\* The record the bytes of the account at k decode to.
TaskIn(accts, k) == try_from_slice(accts[k].data)

TaskAt(k) == TaskIn(accounts, k)

\* This step runs the instruction op, and last' tells which and how it ended.
Runs(op) == last = Idle /\ last'.op = op

\* The flags of the handles of the last instruction are those it asks for.
FlagsAsAsked(l) ==
    /\ l.authority.is_signer /\ l.authority.is_writable
    /\ ~l.task.is_signer /\ l.task.is_writable

\* The instruction l names the record at its Task handle by its own id, and
\* the record's stored bump gives the address of the handle.
NamesRecord(l) ==
    /\ Live(l.task.key)
    /\ l.ix.id = TaskAt(l.task.key).id
    /\ create_pda(TaskAt(l.task.key).id, TaskAt(l.task.key).authority,
                  TaskAt(l.task.key).bump) = l.task.key

(***************************************************************************)
(* C1: an UpdateTask or a DeleteTask on a live record by a signer that is  *)
(* not the record's stored authority fails, and leaves the bytes and the   *)
(* lamports of the account and the lamports of the signer as they were.    *)
(***************************************************************************)
C1_NonAuthorityFails ==
    [][(/\ Runs("UpdateTask") \/ Runs("DeleteTask")
        /\ Live(last'.task.key)
        /\ last'.authority.key # TaskAt(last'.task.key).authority)
       => /\ last'.err # Ok
          /\ accounts'[last'.task.key] = accounts[last'.task.key]
          /\ wallets'[last'.authority.key] = wallets[last'.authority.key]]_vars

\* A DeleteTask by the other signer, with the record's id, its address and the
\* flags asked for, has failed on the authority check.
C1_Witness ==
    /\ last.op = "DeleteTask"
    /\ NamesRecord(last)
    /\ FlagsAsAsked(last)
    /\ last.authority.key # TaskAt(last.task.key).authority
    /\ last.err = "assert authority"

(***************************************************************************)
(* C2: the address of every account that holds a live record is the        *)
(* address create_pda gives for the record's stored id, authority and      *)
(* bump.                                                                   *)
(***************************************************************************)
C2_AddressOfStoredSeeds ==
    \A k \in TaskKeys :
        Live(k) => create_pda(TaskAt(k).id, TaskAt(k).authority, TaskAt(k).bump) = k

(***************************************************************************)
(* C3: after a CreateTask that succeeded, the bump stored in the record is *)
(* the bump find_program_address gave for ("task", id, signer).            *)
(***************************************************************************)
C3_StoredBumpIsCanonical ==
    (last.op = "CreateTask" /\ last.err = Ok)
        => TaskAt(last.task.key).bump =
               find_program_address(last.ix.id, last.authority.key)[2]

(***************************************************************************)
(* C4: a DeleteTask that succeeds zeroes the 169 bytes of the account,     *)
(* leaves it no lamports and adds the lamports it held to the signer's:    *)
(* the two balances sum to what they summed to before.                     *)
(***************************************************************************)
C4_DeleteDrains ==
    [][(Runs("DeleteTask") /\ last'.err = Ok)
       => LET k == last'.task.key
              s == last'.authority.key
          IN  /\ accounts'[k].data = [i \in 1..169 |-> 0]
              /\ accounts'[k].lamports = 0
              /\ wallets'[s] = wallets[s] + accounts[k].lamports
              /\ wallets'[s] + accounts'[k].lamports
                     = wallets[s] + accounts[k].lamports]_vars

\* A DeleteTask has succeeded: the account is zeroed and empty of lamports, and
\* the signer holds its own lamports and those of the account.
C4_Witness ==
    /\ last.op = "DeleteTask"
    /\ last.err = Ok
    /\ accounts[last.task.key].data = [i \in 1..169 |-> 0]
    /\ accounts[last.task.key].lamports = 0
    /\ wallets[last.authority.key] = RentExempt + 1

(***************************************************************************)
(* C5: while an account holds a live record, the record's authority is the *)
(* identity that signed its CreateTask, and no instruction changes its     *)
(* authority, its id or its bump.                                          *)
(***************************************************************************)
C5_AuthorityIdBumpFixed ==
    [][\A k \in TaskKeys :
        /\ LiveIn(accounts', k) => TaskIn(accounts', k).authority = creator'[k]
        /\ (Live(k) /\ LiveIn(accounts', k))
             => /\ TaskIn(accounts', k).authority = TaskAt(k).authority
                /\ TaskIn(accounts', k).id = TaskAt(k).id
                /\ TaskIn(accounts', k).bump = TaskAt(k).bump]_vars

\* An UpdateTask has succeeded on a record, which still names its creator.
C5_Witness ==
    /\ last.op = "UpdateTask"
    /\ last.err = Ok
    /\ Live(last.task.key)
    /\ TaskAt(last.task.key).authority = creator[last.task.key]
    /\ TaskAt(last.task.key).authority = last.authority.key

(***************************************************************************)
(* C6: an UpdateTask with neither a title nor a description fails, whoever *)
(* signs it and whatever it names, and leaves every account and every      *)
(* balance as it was.                                                      *)
(***************************************************************************)
C6_UpdateOfNothingFails ==
    [][(/\ Runs("UpdateTask")
        /\ last'.ix.title = None
        /\ last'.ix.description = None)
       => /\ last'.err # Ok
          /\ accounts' = accounts
          /\ wallets' = wallets]_vars

\* The authority of a record has sent an UpdateTask with the record's id, its
\* address and the flags asked for, but no field, and it failed for that.
C6_Witness ==
    /\ last.op = "UpdateTask"
    /\ last.ix.title = None
    /\ last.ix.description = None
    /\ NamesRecord(last)
    /\ FlagsAsAsked(last)
    /\ last.authority.key = TaskAt(last.task.key).authority
    /\ last.err = "assert title or description"

(***************************************************************************)
(* C7: an UpdateTask that succeeds puts the title it carries, if any, in   *)
(* place of the 64 bytes of the title and the description it carries, if   *)
(* any, in place of the 64 bytes of the description, and changes nothing   *)
(* else: a field it does not carry, the id, the authority and the bump     *)
(* stay, and so do the lamports of every account and of every signer.      *)
(***************************************************************************)
C7_UpdateWritesWhatItCarries ==
    [][(Runs("UpdateTask") /\ last'.err = Ok)
       => LET k == last'.task.key
              ix == last'.ix
              old == TaskAt(k)
              new == TaskIn(accounts', k)
          IN  /\ Len(accounts'[k].data) = 169
              /\ Len(new.title) = 64
              /\ Len(new.description) = 64
              /\ new.title = IF ix.title # None THEN ix.title ELSE old.title
              /\ new.description =
                     IF ix.description # None THEN ix.description ELSE old.description
              /\ new.id = old.id
              /\ new.authority = old.authority
              /\ new.bump = old.bump
              /\ accounts'[k].lamports = accounts[k].lamports
              /\ accounts'[k].owner = accounts[k].owner
              /\ \A j \in TaskKeys \ {k} : accounts'[j] = accounts[j]
              /\ wallets' = wallets]_vars

\* An UpdateTask with a title and no description has succeeded: the record has
\* the title, and a description that is not the title.
C7_Witness ==
    /\ last.op = "UpdateTask"
    /\ last.err = Ok
    /\ last.ix.title # None
    /\ last.ix.description = None
    /\ TaskAt(last.task.key).title = last.ix.title
    /\ TaskAt(last.task.key).description # last.ix.title

(***************************************************************************)
(* C8: after a CreateTask that succeeded, the bytes of the Task account    *)
(* decode to a record with the id, the title and the description of the    *)
(* instruction and the signer as authority.                                *)
(***************************************************************************)
C8_CreateStoresItsInputs ==
    (last.op = "CreateTask" /\ last.err = Ok)
        => /\ CanDecode(accounts[last.task.key].data)
           /\ TaskAt(last.task.key).id = last.ix.id
           /\ TaskAt(last.task.key).title = last.ix.title
           /\ TaskAt(last.task.key).description = last.ix.description
           /\ TaskAt(last.task.key).authority = last.authority.key

\* A CreateTask with a title and another description, for id 1, has succeeded.
C8_Witness ==
    /\ last.op = "CreateTask"
    /\ last.err = Ok
    /\ last.ix.id = 1
    /\ last.ix.title # last.ix.description
    /\ TaskAt(last.task.key).title = last.ix.title

(***************************************************************************)
(* C9: a record created by A with the bump of find_program_address and     *)
(* then updated by A: a DeleteTask with its id signed by another identity  *)
(* fails and leaves the account as it was; a DeleteTask with its id signed *)
(* by A then succeeds and leaves the account no lamports; and when the     *)
(* transaction ends the runtime holds no account at the address.           *)
(***************************************************************************)
C9_Scenario ==
    [][\A k \in TaskKeys :
        /\ (/\ Runs("DeleteTask")
            /\ last'.task.key = k
            /\ Live(k)
            /\ updated[k]
            /\ TaskAt(k).bump = find_program_address(TaskAt(k).id, creator[k])[2]
            /\ last'.ix.id = TaskAt(k).id)
           => /\ last'.authority.key # creator[k]
                  => (last'.err # Ok /\ accounts'[k] = accounts[k])
              /\ (last'.authority.key = creator[k] /\ FlagsAsAsked(last'))
                  => /\ last'.err = Ok
                     /\ accounts'[k].lamports = 0
                     /\ ~LiveIn(accounts', k)
        /\ (/\ last = Idle /\ last' = Idle
            /\ accounts[k] # NoAccount /\ accounts[k].lamports = 0)
           => accounts'[k] = NoAccount]_vars

\* The creator of a record that was updated has deleted it: the account holds
\* no lamports, and the runtime will drop it.
C9_Witness ==
    /\ last.op = "DeleteTask"
    /\ last.err = Ok
    /\ updated[last.task.key]
    /\ creator[last.task.key] = last.authority.key
    /\ accounts[last.task.key].lamports = 0

(***************************************************************************)
(* C10: a CreateTask that succeeds has made the runtime allocate the       *)
(* account at the address find_program_address gives for ("task", id,      *)
(* signer), with 169 bytes, the rent exempt minimum for 169 bytes and this *)
(* program as owner, and the signer has paid the lamports it holds.        *)
(***************************************************************************)
C10_CreateAllocates ==
    [][(Runs("CreateTask") /\ last'.err = Ok)
       => LET s == last'.authority.key
              k == find_program_address(last'.ix.id, s)[1]
          IN  /\ last'.task.key = k
              /\ accounts[k] = NoAccount
              /\ Len(accounts'[k].data) = 169
              /\ accounts'[k].lamports = minimum_balance(169)
              /\ accounts'[k].owner = ProgramOwner
              /\ wallets'[s] = wallets[s] - accounts'[k].lamports
              /\ \A o \in Signers \ {s} : wallets'[o] = wallets[o]]_vars

\* A CreateTask has succeeded: the account holds the rent and the signer what
\* is left of its lamports.
C10_Witness ==
    /\ last.op = "CreateTask"
    /\ last.err = Ok
    /\ accounts[last.task.key].lamports = RentExempt
    /\ Len(accounts[last.task.key].data) = LEN
    /\ wallets[last.authority.key] = 1

(***************************************************************************)
(* C11: for every Task t, whatever the bytes of its title and description, *)
(* serializing t gives 169 bytes with the title at 0..64, the description  *)
(* at 64..128, the authority at 128..160, the id at 160..168 in little     *)
(* endian and the bump at 168, and try_from_slice of these bytes is t.     *)
(***************************************************************************)
C11_RoundTrip ==
    LET t == last.task_data
        data == accounts[CodecKey].data
    IN  /\ last.op \in {"serialize", "try_from_slice"}
            => /\ Len(data) = 169
               /\ \A i \in 1..64 : data[i] = t.title[i]
               /\ \A i \in 1..64 : data[64 + i] = t.description[i]
               /\ \A i \in 1..32 : data[128 + i] = t.authority[i]
               /\ \A i \in 0..3 : data[161 + i] = (t.id \div (256 ^ i)) % 256
               /\ \A i \in 4..7 : data[161 + i] = 0
               /\ data[169] = t.bump
        /\ last.op = "try_from_slice"
            => /\ last.is_ok
               /\ last.decoded = t

\* A Task whose title is 64 bytes of 255, with another description, an id of
\* more than one byte and a bump of 255, has been serialized and read back.
C11_Witness ==
    /\ last.op = "try_from_slice"
    /\ last.task_data.title = [i \in 1..64 |-> 255]
    /\ last.task_data.description # last.task_data.title
    /\ last.task_data.id = 65537
    /\ last.task_data.bump = 255
    /\ last.decoded.title = [i \in 1..64 |-> 255]
    /\ last.decoded.id = 65537

(***************************************************************************)
(* C12: a CreateTask, an UpdateTask or a DeleteTask that fails has written *)
(* nothing when it fails: the handler leaves the bytes and the lamports of *)
(* every account as it found them, the runtime's rollback aside.           *)
(***************************************************************************)
C12_NoWriteBeforeFailure ==
    [][(Runs("CreateTask") \/ Runs("UpdateTask") \/ Runs("DeleteTask"))
       => \A p \in Programs :
            LET r == process_instruction(
                         State, last'.ix,
                         <<last'.authority, last'.task, AccountInfo(p, FALSE, FALSE)>>)
            IN  r.err # Ok => (r.accounts = accounts /\ r.wallets = wallets)]_vars

(***************************************************************************)
(* C15: a DeleteTask sets the signer's lamports to the sum of the signer's *)
(* and the account's lamports only when the sum fits a u64.  When the sum  *)
(* is more than u64::MAX, a DeleteTask that passes every other check fails *)
(* on checked_add, and the signer's lamports are never the sum modulo 2^64 *)
(* nor anything else than they were.                                       *)
(***************************************************************************)
C15_DeleteAddsChecked ==
    [][Runs("DeleteTask")
       => LET k == last'.task.key
              s == last'.authority.key
              sum == wallets[s] + accounts[k].lamports
          IN  /\ last'.err = Ok => (sum <= U64Max /\ wallets'[s] = sum)
              /\ sum > U64Max
                  => /\ last'.err # Ok
                     /\ wallets' = wallets
                     /\ accounts' = accounts
              /\ (/\ sum > U64Max
                  /\ NamesRecord(last')
                  /\ FlagsAsAsked(last')
                  /\ s = TaskAt(k).authority)
                  => last'.err = "checked_add"
              /\ wallets'[s] <= U64Max]_vars

\* The authority of a record has sent a DeleteTask that passed every check but
\* the addition: the sum of the lamports is more than a u64 holds, and the
\* signer and the account hold what they held.
C15_Witness ==
    /\ last.op = "DeleteTask"
    /\ last.err = "checked_add"
    /\ NamesRecord(last)
    /\ wallets[last.authority.key] + accounts[last.task.key].lamports > U64Max
    /\ accounts[last.task.key].lamports > 0
    /\ accounts[last.task.key].data # [i \in 1..169 |-> 0]

(***************************************************************************)
(* C13: an UpdateTask or a DeleteTask succeeds only if the key of its Task *)
(* handle is the address create_pda gives for the id, the authority and    *)
(* the bump stored in the bytes of that account.  When create_pda gives    *)
(* another address, or no address because the stored bump is not valid for *)
(* these seeds, the instruction fails and leaves the bytes of the account  *)
(* and all lamports as they were.                                          *)
(***************************************************************************)
C13_AddressRecomputed ==
    [][(Runs("UpdateTask") \/ Runs("DeleteTask"))
       => LET k == last'.task.key
              stored == TaskAt(k)
              task_pda == create_pda(stored.id, stored.authority, stored.bump)
              others_pass == /\ FlagsAsAsked(last')
                             /\ last'.authority.key = stored.authority
                             /\ last'.ix.id = stored.id
                             /\ last'.op = "UpdateTask"
                                  => (last'.ix.title # None \/ last'.ix.description # None)
          IN  /\ last'.err = Ok
                  => (CanDecode(accounts[k].data) /\ task_pda = k)
              /\ (CanDecode(accounts[k].data) /\ task_pda # k)
                  => /\ last'.err # Ok
                     /\ accounts' = accounts
                     /\ wallets' = wallets
                     /\ (others_pass /\ task_pda = InvalidSeeds)
                          => last'.err = "Invalid Seeds"
                     /\ (others_pass /\ task_pda # InvalidSeeds)
                          => last'.err = "assert task.key"]_vars

\* The authority of a live record has sent an UpdateTask with the record's id
\* and the flags asked for; the stored bump gives a valid address that is not
\* the account's, and the instruction has failed on it.
C13_Witness ==
    /\ last.op = "UpdateTask"
    /\ last.err = "assert task.key"
    /\ Live(last.task.key)
    /\ FlagsAsAsked(last)
    /\ last.authority.key = TaskAt(last.task.key).authority
    /\ last.ix.id = TaskAt(last.task.key).id
    /\ create_pda(TaskAt(last.task.key).id, TaskAt(last.task.key).authority,
                  TaskAt(last.task.key).bump) \notin {last.task.key, InvalidSeeds}

(***************************************************************************)
(* C14: an UpdateTask or a DeleteTask whose id is not the id stored in the *)
(* record at its Task handle fails, also when the signer is the record's   *)
(* authority and the handle is the record's own account, and leaves the    *)
(* bytes of the record and all lamports as they were.                      *)
(***************************************************************************)
C14_WrongIdFails ==
    [][(/\ Runs("UpdateTask") \/ Runs("DeleteTask")
        /\ Live(last'.task.key)
        /\ last'.ix.id # TaskAt(last'.task.key).id)
       => /\ last'.err # Ok
          /\ accounts' = accounts
          /\ wallets' = wallets
          /\ (/\ FlagsAsAsked(last')
              /\ last'.authority.key = TaskAt(last'.task.key).authority
              /\ last'.op = "UpdateTask"
                   => (last'.ix.title # None \/ last'.ix.description # None))
             => last'.err = "assert id"]_vars

\* The authority of a live record has sent a DeleteTask to the record's own
\* account, which is at the address of its stored seeds, with the flags asked
\* for and another id: it has failed on the id.
C14_Witness ==
    /\ last.op = "DeleteTask"
    /\ last.err = "assert id"
    /\ Live(last.task.key)
    /\ FlagsAsAsked(last)
    /\ last.authority.key = TaskAt(last.task.key).authority
    /\ last.ix.id # TaskAt(last.task.key).id
    /\ create_pda(TaskAt(last.task.key).id, TaskAt(last.task.key).authority,
                  TaskAt(last.task.key).bump) = last.task.key

(***************************************************************************)
(* C16: a CreateTask, an UpdateTask or a DeleteTask whose authority handle *)
(* is not a signer or not writable, or whose Task handle is a signer or    *)
(* not writable, fails on the assert of that flag, before any account is   *)
(* read or written: no account and no lamports change.  An instruction     *)
(* that succeeds had the four flags as asked.                              *)
(***************************************************************************)
C16_FlagsChecked ==
    [][(Runs("CreateTask") \/ Runs("UpdateTask") \/ Runs("DeleteTask"))
       => /\ ~FlagsAsAsked(last')
              => /\ last'.err \in {"assert authority.is_signer",
                                   "assert authority.is_writable",
                                   "assert !task.is_signer",
                                   "assert task.is_writable"}
                 /\ accounts' = accounts
                 /\ wallets' = wallets
          /\ ~last'.authority.is_signer
              => last'.err = "assert authority.is_signer"
          /\ last'.err = Ok => FlagsAsAsked(last')]_vars

\* The authority of a live record has sent a DeleteTask that names the record
\* but whose authority handle is not writable: it has failed on that flag and
\* the record is as it was.
C16_Witness ==
    /\ last.op = "DeleteTask"
    /\ last.err = "assert authority.is_writable"
    /\ NamesRecord(last)
    /\ last.authority.key = TaskAt(last.task.key).authority
    /\ last.authority.is_signer
    /\ ~last.authority.is_writable
    /\ Live(last.task.key)

(***************************************************************************)
(* C17: in the state right after a CreateTask that succeeded, whatever     *)
(* bump the instruction carried, an UpdateTask with a field and a          *)
(* DeleteTask signed by the same signer, with the same id, on the same     *)
(* account and with the flags asked for, succeed.                          *)
(***************************************************************************)
C17_CreatedRecordOperable ==
    (last.op = "CreateTask" /\ last.err = Ok)
        => LET authority == AccountInfo(last.authority.key, TRUE, TRUE)
               task == AccountInfo(last.task.key, FALSE, TRUE)
           IN  /\ \A title \in Texts :
                    UpdateTask(State, UpdateIx(last.ix.id, title, None),
                               authority, task).err = Ok
               /\ DeleteTask(State, DeleteIx(last.ix.id), authority, task).err = Ok

(***************************************************************************)
(* C18: from a DeleteTask that succeeded until the runtime drops the       *)
(* account, the account holds no lamports and 169 zero bytes, whose        *)
(* authority is the key of 32 zero bytes, which no signer has: every       *)
(* UpdateTask and DeleteTask on the account fails, whoever signs it, and   *)
(* no instruction changes the account or takes lamports from it again.     *)
(***************************************************************************)
C18_DrainedUnitInert ==
    [][\A k \in TaskKeys :
        LET drained == /\ accounts[k] # NoAccount
                       /\ accounts[k].lamports = 0
        IN  /\ (Runs("DeleteTask") /\ last'.err = Ok /\ last'.task.key = k)
                => (accounts'[k] # NoAccount /\ accounts'[k].lamports = 0)
            /\ drained
                => /\ accounts[k].data = [i \in 1..169 |-> 0]
                   /\ TaskAt(k).authority = [i \in 1..32 |-> 0]
                   /\ TaskAt(k).authority \notin Signers
                   /\ accounts'[k] \in {accounts[k], NoAccount}
                   /\ ((Runs("UpdateTask") \/ Runs("DeleteTask")) /\ last'.task.key = k)
                        => /\ last'.err # Ok
                           /\ accounts' = accounts
                           /\ wallets' = wallets]_vars

\* The identity that created a record of id 0 and deleted it has sent a second
\* DeleteTask, with the flags asked for, before the runtime dropped the account:
\* it has failed on the authority, and the account holds zeroes and no lamports.
C18_Witness ==
    /\ last.op = "DeleteTask"
    /\ last.err = "assert authority"
    /\ FlagsAsAsked(last)
    /\ last.authority.key = creator[last.task.key]
    /\ last.ix.id = TaskAt(last.task.key).id
    /\ accounts[last.task.key].owner = ProgramOwner
    /\ accounts[last.task.key].lamports = 0
    /\ accounts[last.task.key].data = [i \in 1..169 |-> 0]

(***************************************************************************)
(* C19: a CreateTask for an id and a signer whose address, the one         *)
(* find_program_address gives, holds a live record fails, on the System    *)
(* Program's AccountAlreadyInUse when nothing else is wrong with it, and   *)
(* leaves the bytes and the lamports of the record, and every other        *)
(* account and balance, as they were.                                      *)
(***************************************************************************)
C19_CreateOnLiveRecordFails ==
    [][(/\ Runs("CreateTask")
        /\ Live(find_program_address(last'.ix.id, last'.authority.key)[1]))
       => LET k == find_program_address(last'.ix.id, last'.authority.key)[1]
          IN  /\ last'.err # Ok
              /\ accounts' = accounts
              /\ wallets' = wallets
              /\ LiveIn(accounts', k)
              /\ (FlagsAsAsked(last') /\ last'.task.key = k)
                  => last'.err \in {"assert system_program.key",
                                    "AccountAlreadyInUse"}]_vars

\* A CreateTask with the flags asked for, for the id and by the authority of a
\* live record, carrying another title than the record's, has been refused by
\* the System Program: the record has its title and its lamports.
C19_Witness ==
    /\ last.op = "CreateTask"
    /\ last.err = "AccountAlreadyInUse"
    /\ FlagsAsAsked(last)
    /\ last.task.key = find_program_address(last.ix.id, last.authority.key)[1]
    /\ Live(last.task.key)
    /\ TaskAt(last.task.key).id = last.ix.id
    /\ TaskAt(last.task.key).authority = last.authority.key
    /\ TaskAt(last.task.key).title # last.ix.title
    /\ accounts[last.task.key].lamports = RentExempt

====
